---------------------------- MODULE Spec2Model ----------------------------
(***************************************************************************)
(* Voice assistant front-end (chat-stt-frontend copy/static/script.js and  *)
(* tts_service.js): the continuous-monitoring VAD loop, the recorder, the  *)
(* STT -> Chat -> TTS pipeline (processAudio) and the global interrupt.    *)
(*                                                                         *)
(* The browser's event loop runs one task at a time, so every action below *)
(* is one task: a timer callback, a recorder event, or the continuation of *)
(* an async function from one await to the next.                           *)
(*                                                                         *)
(* Time is counted in polling ticks.  Timers hold the time that remains    *)
(* until they are due; Date.now() latched into voiceStartTime is held as   *)
(* the time elapsed since it was latched.  Loudness is in tenths.          *)
(***************************************************************************)
EXTENDS Integers, Sequences, FiniteSets, TLC

VARIABLES
    state,      \* the global `state` object of script.js
    vad,        \* the locals of startVoiceDetection captured by checkVoiceLevel
    recorder,   \* MediaRecorder, the audioChunks closure and AudioBuffer.isRecording
    tts,        \* TTSService.state and config.enabled
    timers,     \* pending setTimeout callbacks of executeGlobalInterrupt
    tasks,      \* the processAudio invocations in flight, by slot
    audioBuffer,  \* the AudioBuffer object and the chunks of the recorder, by timestamp
    conversation, \* state.conversationId and the chat requests that carry it
    transcription, \* the transcription of a clip, with its retry loop
    chat,          \* sendMessageToAI of the push-to-talk page, with its retry loop
    stream,        \* the bytes of a chat response and what handleStreamResponse made of them
    detection,     \* the checkVoiceLevel timers pending, each with the counter of its closure
    service,       \* a TTSService driven through enqueue, with its audioQueue
    ghost       \* history variables, read by the properties only

vars == <<state, vad, recorder, tts, timers, tasks, audioBuffer, conversation,
          transcription, chat, stream, detection, service, ghost>>

(***************************************************************************)
(* Bounds of the model.                                                    *)
(***************************************************************************)
MaxPipelines == 2        \* processAudio invocations in flight at once
MaxVolume == 3           \* loudest sample, in tenths
MaxFrames == 3           \* the frame counters and elapsed times stop counting here
MaxChunks == 1           \* recorded chunks kept in audioChunks
MaxPendingStops == 1     \* MediaRecorder stop events queued at once
QUESTION_DELAY == 3      \* CONFIG.QUESTION_DELAY, scaled
VOICE_DETECTION_INTERVAL == 2   \* CONFIG.VOICE_DETECTION_INTERVAL, scaled
INTERRUPT_RESET_DELAY == 2      \* setTimeout(..., 100) of executeGlobalInterrupt, scaled
RECORDING_TIMEOUT == 6   \* CONFIG.RECORDING_TIMEOUT, scaled
BUFFER_DURATION == 3     \* AudioBuffer.bufferDuration, scaled
MaxClock == 6            \* Date.now() stops advancing here
MaxLoops == 3            \* checkVoiceLevel timers pending at once
MaxEvents == 2           \* events in one chat response
CHAT_RETRY_DELAY == 2    \* the 2000 ms of the chat retry delay, scaled
RETRY_DELAY == 2         \* the 1000 ms of the retry delay, scaled
MaxIds == 2              \* conversation ids the chat endpoint assigns
MaxBuffered == 3         \* entries kept in AudioBuffer.buffer

(***************************************************************************)
(* Program constants.                                                      *)
(***************************************************************************)
VOICE_DETECTION_THRESHOLD == 2   \* CONFIG.VOICE_DETECTION_THRESHOLD = 0.2
VOICE_CONFIRM_FRAMES == 3
TTS_RETRIES == 2                 \* options.retries || 2
maxRetries == 3                  \* processAudio of the push-to-talk page
maxRetriesChat == 2              \* maxRetries of sendMessageToAI

NULL == 0
DeadReader == -1     \* the reader of an invocation that can never resume
NoTimer == -1
NoTime == -1

Slots == DOMAIN tasks
Volumes == VOICE_DETECTION_THRESHOLD..MaxVolume

FloorDiv(a, b) == a \div b

CeilDiv(a, b) == (a + b - 1) \div b

SILENCE_CONFIRM_FRAMES == CeilDiv(QUESTION_DELAY, VOICE_DETECTION_INTERVAL)

Inc(n) == IF n < MaxFrames THEN n + 1 ELSE n

VoiceGE(volume) == volume >= VOICE_DETECTION_THRESHOLD

IsVoice(volume) == volume > VOICE_DETECTION_THRESHOLD

(***************************************************************************)
(* The whole program state as one record, so that a handler is an operator *)
(* from state to state and a handler that calls another composes them.     *)
(***************************************************************************)
W == [state |-> state, vad |-> vad, recorder |-> recorder, tts |-> tts,
      timers |-> timers, tasks |-> tasks, ghost |-> ghost]

Apply(w) ==
    /\ state' = w.state
    /\ vad' = w.vad
    /\ recorder' = w.recorder
    /\ tts' = w.tts
    /\ timers' = w.timers
    /\ tasks' = w.tasks
    /\ ghost' = w.ghost

\* The loudness sequence since the page was loaded, as long as it has the
\* shape silence, one run of voice, silence: the phase it is in, whether the
\* run reached VOICE_CONFIRM_FRAMES ticks, and the recordings started and
\* ended so far.  Any other sequence is "off".
QuietScenario == [phase |-> "quiet", confirmed |-> FALSE, starts |-> 0, ends |-> 0,
                  timedOut |-> FALSE]

OffScenario == [phase |-> "off", confirmed |-> FALSE, starts |-> 0, ends |-> 0,
                timedOut |-> FALSE]

IdleTask == [pc |-> "idle", messageElement |-> FALSE, readerCancelled |-> FALSE,
             attempt |-> 0, errors |-> 0]

\* the callbacks a speak() call has made when it returns: onEnd, onError
NotSettled == [ends |-> 0, errors |-> 0]

\* new AudioBuffer(), a recorder that holds no chunk, and the clock of the page
NewAudioBuffer ==
    [buffer |-> <<>>, isRecording |-> FALSE, now |-> 1, recording |-> FALSE,
     fromTimestamp |-> NoTime, bufferedData |-> <<>>, audioChunks |-> <<>>, clip |-> <<>>, op |-> "new"]

\* a page with nothing recorded
NoTranscription ==
    [pc |-> "idle", page |-> "push", size |-> "fits",
     audioChunks |-> 0, retryCount |-> 0, remaining |-> 0,
     attempts |-> 0, delays |-> <<>>, failure |-> "none", status |-> "ready",
     op |-> "new"]

\* startContinuousMonitoring of initializeAudio has started the first loop
\* texts are numbered as they are enqueued; NoText is no text
MaxTexts == 3
NoText == 0

\* TTSService.state after the constructor, with config.enabled, the position of
\* the _processQueue loop (phase, text) and the next text of the caller
NewService == [enabled |-> TRUE, audioQueue |-> <<>>, isSpeaking |-> FALSE,
               isProcessing |-> FALSE, currentAudio |-> FALSE,
               phase |-> "idle", text |-> NoText, next |-> 1, spoken |-> <<>>,
               op |-> "new"]

FirstDetection == [continuousMonitoring |-> TRUE, loops |-> <<0>>, op |-> "new"]

\* no chat response is being read
NoStream == [open |-> FALSE, events |-> <<>>, pending |-> <<>>, handled |-> <<>>,
             errored |-> FALSE, op |-> "new"]

\* the push-to-talk page with no message sent
NoMessage ==
    [pc |-> "idle", retryCount |-> 0, remaining |-> 0, requests |-> 0,
     assistantMessage |-> FALSE, streamed |-> FALSE, failure |-> "none",
     status |-> "ready", op |-> "new"]

\* state.conversationId = '' and no chat request sent
NoChat == [pc |-> "idle", sent |-> NULL]

NewConversation ==
    [conversationId |-> NULL, chats |-> [s \in 1..MaxPipelines |-> NoChat],
     assigned |-> 0, latest |-> NULL, fresh |-> TRUE, op |-> "new"]

\* the page after initializeApp, with room for n processAudio invocations
Boot(n, observed) ==
    /\ state = [isRecording |-> FALSE, isProcessing |-> FALSE,
                voiceStartTime |-> NoTime, shouldInterrupt |-> FALSE,
                isInterrupted |-> FALSE, currentStreamReader |-> NULL,
                lastVolume |-> 0, recordingTimer |-> NoTimer, leakedTimer |-> NoTimer,
                continuousMonitoring |-> TRUE, panelProcessing |-> FALSE]
    /\ vad = [consecutiveVoiceFrames |-> 0, consecutiveSilenceFrames |-> 0,
              running |-> TRUE]
    /\ recorder = [state |-> "inactive", audioChunks |-> 0, pendingStops |-> 0,
                   bufferIsRecording |-> FALSE, faulty |-> FALSE]
    /\ tts = [isSpeaking |-> FALSE, currentAudio |-> NULL, isProcessing |-> FALSE,
              enabled |-> TRUE]
    /\ timers = {}
    /\ tasks = [s \in 1..n |-> IdleTask]
    /\ audioBuffer = NewAudioBuffer
    /\ conversation = NewConversation
    /\ transcription = NoTranscription
    /\ chat = NoMessage
    /\ stream = NoStream
    /\ detection = FirstDetection
    /\ service = NewService
    /\ ghost = [ev |-> {}, cut |-> NULL, history |-> <<>>, silentRun |-> 0, heldRun |-> 0,
                requested |-> FALSE, open |-> 0,
                observed |-> observed,
                scen |-> IF observed THEN QuietScenario ELSE OffScenario,
                interrupted |-> {}, newest |-> NULL, spoke |-> NotSettled,
                recAge |-> 0, failed |-> FALSE]

\* one utterance is processed at a time
Init == Boot(1, TRUE)

\* utterances may overlap
InitTurns == Boot(MaxPipelines, FALSE)

\* the events of the current step that the properties read
Recorded == {"tick", "interrupt", "workflow_finished", "text", "blank", "revoke",
             "timeout", "toggleTTS", "stopTTS", "error", "dropped", "empty",
             "recorderError", "interruptTimer"}

Note(w, e) == IF e \in Recorded THEN [w EXCEPT !.ghost.ev = @ \cup {e}] ELSE w

ClearEv(w) == [w EXCEPT !.ghost.ev = {}, !.ghost.cut = NULL, !.ghost.spoke = NotSettled]

Busy(w) == w.state.isProcessing \/ w.tts.isSpeaking

Flagged(w) == w.state.isInterrupted \/ w.state.shouldInterrupt

Active(t) == t.pc \notin {"idle", "hung"}

(***************************************************************************)
(* TTSService.stop (tts_service.js 177-185).  Pausing an audio whose       *)
(* play() promise is still pending rejects that promise; pausing one that  *)
(* is playing fires neither onended nor onerror, so the _playAudio promise *)
(* of that invocation never settles and the invocation never resumes.      *)
(***************************************************************************)
PauseAudio(t) ==
    CASE t.pc = "starting" -> [t EXCEPT !.pc = "aborted"]
      [] t.pc = "play" -> [t EXCEPT !.pc = "hung"]
      [] OTHER -> t

\* a variant of stop that pauses the audio but keeps the reference to it
TtsStopKeepAudio(w) ==
    LET a == w.tts.currentAudio
        w1 == IF a # NULL THEN [w EXCEPT !.tasks[a] = PauseAudio(@)] ELSE w
    IN  [w1 EXCEPT !.tts.isSpeaking = FALSE]

TtsStop(w) ==
    LET a == w.tts.currentAudio
        w1 == IF a # NULL
              THEN [w EXCEPT !.tasks[a] = PauseAudio(@), !.tts.currentAudio = NULL]
              ELSE w
    IN  [w1 EXCEPT !.tts.isSpeaking = FALSE]

(***************************************************************************)
(* executeGlobalInterrupt (script.js 585-627).                             *)
(***************************************************************************)
CancelReader(w) ==
    LET r == w.state.currentStreamReader
    IN  IF r = NULL THEN w
        ELSE LET w1 == IF r \in DOMAIN w.tasks
                       THEN [w EXCEPT !.tasks[r].readerCancelled = TRUE]
                       ELSE w
             IN  [w1 EXCEPT !.state.currentStreamReader = NULL]

ExecuteGlobalInterruptNoReset(w) ==
    LET inFlight == {s \in DOMAIN w.tasks : Active(w.tasks[s])}
        w1 == [w EXCEPT !.state.isInterrupted = TRUE, !.state.shouldInterrupt = FALSE]
        w2 == CancelReader(w1)
        w3 == IF w2.tts.isSpeaking THEN TtsStop(w2) ELSE w2
        w5 == [w3 EXCEPT !.timers = @ \cup {INTERRUPT_RESET_DELAY},
                         !.ghost.interrupted = @ \cup inFlight,
                         !.ghost.requested = FALSE,
                         !.ghost.cut = IF w.state.currentStreamReader \in DOMAIN w.tasks
                                       THEN w.state.currentStreamReader
                                       ELSE NULL]
    IN  Note(w5, "interrupt")

ExecuteGlobalInterrupt(w) ==
    LET inFlight == {s \in DOMAIN w.tasks : Active(w.tasks[s])}
        w1 == [w EXCEPT !.state.isInterrupted = TRUE, !.state.shouldInterrupt = FALSE]
        w2 == CancelReader(w1)
        w3 == IF w2.tts.isSpeaking THEN TtsStop(w2) ELSE w2
        w4 == [w3 EXCEPT !.state.isProcessing = FALSE, !.state.panelProcessing = FALSE]
        w5 == [w4 EXCEPT !.timers = @ \cup {INTERRUPT_RESET_DELAY},
                         !.ghost.interrupted = @ \cup inFlight,
                         !.ghost.requested = FALSE,
                         !.ghost.cut = IF w.state.currentStreamReader \in DOMAIN w.tasks
                                       THEN w.state.currentStreamReader
                                       ELSE NULL]
    IN  Note(w5, "interrupt")

(***************************************************************************)
(* startRecording (script.js 816-851) and stopRecording (856-888).         *)
(* MediaRecorder.start throws when the recorder is not inactive and        *)
(* MediaRecorder.stop throws when it is inactive.                          *)
(***************************************************************************)
\* the scenario counts recordings up to "more than one"
Count(n) == IF n < 2 THEN n + 1 ELSE n

Started(w) ==
    [w EXCEPT !.ghost.open = @ + 1, !.ghost.recAge = 0,
              !.ghost.scen.starts = IF w.ghost.scen.phase = "off" THEN 0 ELSE Count(@)]

Ended(w) ==
    [w EXCEPT !.ghost.open = @ - 1, !.ghost.recAge = 0,
              !.ghost.scen.ends = IF w.ghost.scen.phase = "off" THEN 0 ELSE Count(@)]

\* a variant of startRecording that sets no recording timeout
StartRecordingNoTimer(w) ==
    IF w.state.isRecording THEN w
    ELSE LET w1 == IF w.state.voiceStartTime # NoTime
                   THEN [w EXCEPT !.recorder.bufferIsRecording = TRUE]
                   ELSE w
         IN  IF w1.recorder.state # "inactive" \/ w1.recorder.faulty
             THEN [w1 EXCEPT !.state.isRecording = FALSE,
                             !.state.voiceStartTime = NoTime]
             ELSE Started([w1 EXCEPT !.state.isRecording = TRUE,
                                     !.recorder.state = "recording"])

\* state.recordingTimer is assigned a new timer: the one it held stays
\* pending with no handle left (the earliest of them is kept)
Leaked(w) ==
    IF w.state.recordingTimer = NoTimer THEN w.state.leakedTimer
    ELSE IF w.state.leakedTimer = NoTimer THEN w.state.recordingTimer
    ELSE IF w.state.leakedTimer < w.state.recordingTimer THEN w.state.leakedTimer
    ELSE w.state.recordingTimer

StartRecording(w) ==
    IF w.state.isRecording THEN w
    ELSE LET w1 == IF w.state.voiceStartTime # NoTime
                   THEN [w EXCEPT !.recorder.bufferIsRecording = TRUE]
                   ELSE w
         IN  IF w1.recorder.state # "inactive" \/ w1.recorder.faulty
             THEN [w1 EXCEPT !.state.isRecording = FALSE,
                             !.state.voiceStartTime = NoTime]
             ELSE Started([w1 EXCEPT !.state.isRecording = TRUE,
                                     !.recorder.state = "recording",
                                     !.state.leakedTimer = Leaked(w1),
                                     !.state.recordingTimer = RECORDING_TIMEOUT])

StopRecordingKeepFlag(w) ==
    IF ~w.state.isRecording THEN w
    ELSE LET w1 == Ended([w EXCEPT !.recorder.bufferIsRecording = FALSE])
         IN  IF w1.recorder.state = "inactive"
             THEN [w1 EXCEPT !.state.voiceStartTime = NoTime]
             ELSE [w1 EXCEPT !.recorder.state = "inactive",
                             !.recorder.pendingStops = @ + 1,
                             !.state.panelProcessing = TRUE,
                             !.state.recordingTimer = NoTimer,
                             !.state.voiceStartTime = NoTime]

StopRecording(w) ==
    IF ~w.state.isRecording THEN w
    ELSE LET w1 == Ended([w EXCEPT !.state.isRecording = FALSE,
                                   !.recorder.bufferIsRecording = FALSE])
         IN  IF w1.recorder.state = "inactive"
             THEN [w1 EXCEPT !.state.voiceStartTime = NoTime]
             ELSE [w1 EXCEPT !.recorder.state = "inactive",
                             !.recorder.pendingStops = @ + 1,
                             !.state.panelProcessing = TRUE,
                             !.state.recordingTimer = NoTimer,
                             !.state.voiceStartTime = NoTime]

(***************************************************************************)
(* checkVoiceLevel (script.js 676-771), one polling tick.                  *)
(***************************************************************************)
VoicedTick(w, volume) ==
    LET n == Inc(w.vad.consecutiveVoiceFrames)
        w1 == [w EXCEPT !.vad.consecutiveVoiceFrames = n,
                        !.vad.consecutiveSilenceFrames = 0]
        w2 == IF n = 1 /\ w1.state.voiceStartTime = NoTime
              THEN [w1 EXCEPT !.state.voiceStartTime = 0]
              ELSE w1
        w3 == IF n = 1 /\ Busy(w2)
              THEN [w2 EXCEPT !.state.shouldInterrupt = TRUE, !.ghost.requested = TRUE]
              ELSE w2
    IN  IF /\ n >= VOICE_CONFIRM_FRAMES
           /\ ~w3.state.isRecording
           /\ ~w3.state.isProcessing
        THEN StartRecording(IF w3.tts.isSpeaking THEN TtsStop(w3) ELSE w3)
        ELSE w3

SilentTickKeepStart(w, volume) ==
    LET n == Inc(w.vad.consecutiveSilenceFrames)
        w1 == [w EXCEPT !.vad.consecutiveSilenceFrames = n,
                        !.vad.consecutiveVoiceFrames = 0]
    IN  IF w1.state.isRecording /\ n >= SILENCE_CONFIRM_FRAMES
        THEN [StopRecording(w1) EXCEPT !.vad.consecutiveSilenceFrames = 0]
        ELSE w1

SilentTick(w, volume) ==
    LET n == Inc(w.vad.consecutiveSilenceFrames)
        w1 == [w EXCEPT !.vad.consecutiveSilenceFrames = n,
                        !.vad.consecutiveVoiceFrames = 0]
        w2 == IF w1.state.voiceStartTime # NoTime /\ ~w1.state.isRecording
              THEN [w1 EXCEPT !.state.voiceStartTime = NoTime]
              ELSE w1
    IN  IF w2.state.isRecording /\ n >= SILENCE_CONFIRM_FRAMES
        THEN [StopRecording(w2) EXCEPT !.vad.consecutiveSilenceFrames = 0]
        ELSE w2

CheckVoiceLevel(w, volume) ==
    LET w1 == IF w.state.shouldInterrupt /\ Busy(w)
              THEN ExecuteGlobalInterrupt(w)
              ELSE w
        w2 == [w1 EXCEPT !.ghost.requested = FALSE]
        w3 == IF IsVoice(volume) THEN VoicedTick(w2, volume) ELSE SilentTick(w2, volume)
    IN  [w3 EXCEPT !.state.lastVolume = volume]

(***************************************************************************)
(* Time.  A tick runs the handler and then lets one polling interval pass; *)
(* a timer that has become due runs before the next tick.                  *)
(***************************************************************************)
Remaining(t) == IF t > VOICE_DETECTION_INTERVAL THEN t - VOICE_DETECTION_INTERVAL ELSE 0

\* the time a recording has been running, counted up to just past the timeout
Older(age) ==
    IF age + VOICE_DETECTION_INTERVAL <= RECORDING_TIMEOUT + VOICE_DETECTION_INTERVAL
    THEN age + VOICE_DETECTION_INTERVAL
    ELSE age

AdvanceTime(w) ==
    [w EXCEPT !.timers = {Remaining(t) : t \in @},
              !.state.recordingTimer = IF @ = NoTimer THEN NoTimer ELSE Remaining(@),
              !.state.leakedTimer = IF @ = NoTimer THEN NoTimer ELSE Remaining(@),
              !.state.voiceStartTime = IF @ = NoTime THEN NoTime ELSE Inc(@),
              !.ghost.recAge = IF w.state.isRecording THEN Older(@) ELSE 0]

TimerDue(w) == 0 \in w.timers \/ w.state.recordingTimer = 0 \/ w.state.leakedTimer = 0

Last(seq, n) == IF Len(seq) <= n THEN seq ELSE SubSeq(seq, Len(seq) - n + 1, Len(seq))

AllVoiced(history) ==
    Len(history) = VOICE_CONFIRM_FRAMES /\ \A i \in 1..Len(history) : history[i]

NextScenario(scen, voiced, history) ==
    CASE scen.phase = "quiet" /\ ~voiced -> scen
      [] scen.phase \in {"quiet", "voice"} /\ voiced ->
            [scen EXCEPT !.phase = "voice", !.confirmed = AllVoiced(history)]
      [] scen.phase \in {"voice", "after"} /\ ~voiced -> [scen EXCEPT !.phase = "after"]
      [] OTHER -> OffScenario

\* what the properties remember of the samples: w0 is the state before the tick
Observe(w0, w, volume) ==
    LET voiced == volume > VOICE_DETECTION_THRESHOLD
        history == Last(Append(w.ghost.history, voiced), VOICE_CONFIRM_FRAMES)
    IN  IF ~w.ghost.observed THEN w ELSE
        [w EXCEPT !.ghost.history = history,
                  !.ghost.silentRun = IF voiced THEN 0 ELSE Inc(@),
                  !.ghost.heldRun = IF voiced /\ Busy(w0) THEN Inc(@) ELSE 0,
                  !.ghost.scen = NextScenario(@, voiced, history)]

(***************************************************************************)
(* processAudio (script.js 946-1006): its entry up to the first await, and *)
(* its finally block.                                                      *)
(***************************************************************************)
FreeSlots(w) == {s \in DOMAIN w.tasks : ~Active(w.tasks[s])}

FreeSlot(w) == CHOOSE s \in FreeSlots(w) : \A t \in FreeSlots(w) : s <= t

Release(w, s) ==
    [w EXCEPT !.tasks[s] = IdleTask, !.ghost.interrupted = @ \ {s}]

\* a variant of the finally block that leaves isProcessing set
ProcessAudioFinallyKeepBusy(w, s) ==
    LET w1 == Note(Release([w EXCEPT !.state.panelProcessing = FALSE], s), "finally")
    IN  IF Flagged(w1) THEN ExecuteGlobalInterrupt(w1) ELSE w1

ProcessAudioFinally(w, s) ==
    LET w1 == Note(Release([w EXCEPT !.state.isProcessing = FALSE,
                                      !.state.panelProcessing = FALSE], s), "finally")
    IN  IF Flagged(w1) THEN ExecuteGlobalInterrupt(w1) ELSE w1

ProcessAudio(w) ==
    LET s == FreeSlot(w)
        w0 == IF w.state.currentStreamReader = s
              THEN [w EXCEPT !.state.currentStreamReader = DeadReader]
              ELSE w
        w1 == [Release(w0, s) EXCEPT !.state.isProcessing = TRUE,
                                     !.tasks[s].pc = "stt",
                                     !.ghost.newest = s]
    IN  IF Flagged(w1)
        THEN ProcessAudioFinally(Note(w1, "dropped"), s)
        ELSE Note(w1, "stt")

(***************************************************************************)
(* TTSService.speak (tts_service.js 90-142) with the callbacks that        *)
(* initializeTTS installs (script.js 266-328), _playAudioWithRetry         *)
(* (630-655) and _playAudio (271-474).                                     *)
(***************************************************************************)
ResetFlags(w) ==
    [w EXCEPT !.state.shouldInterrupt = FALSE, !.state.isInterrupted = FALSE]

OnStart(w) == IF Flagged(w) THEN TtsStop(w) ELSE ResetFlags(w)

Speak(w, s) ==
    IF ~w.tts.enabled THEN w
    ELSE LET w1 == OnStart([w EXCEPT !.tts.isProcessing = TRUE])
         IN  Note([TtsStop(w1) EXCEPT !.tasks[s].pc = "synth"], "synth")

\* speak() returns to handleStreamResponse, having called onEnd `ends` times
\* and onError `errors` times
Settle(w, s, ends, errors) ==
    [w EXCEPT !.tts.isProcessing = FALSE, !.tasks[s].pc = "read",
              !.tasks[s].errors = 0,
              !.ghost.spoke = [ends |-> ends, errors |-> errors]]

SpeakFailed(w, s) == Settle(ResetFlags(w), s, 0, w.tasks[s].errors + 1)

PlayAudio(w, s) ==
    Note([w EXCEPT !.tts.currentAudio = s, !.tts.isSpeaking = TRUE,
                   !.tasks[s].pc = "starting"], "play")

PlayFailed(w, s) ==
    IF w.tasks[s].attempt = TTS_RETRIES
    THEN SpeakFailed(w, s)
    ELSE [w EXCEPT !.tasks[s].pc = "retryWait", !.tasks[s].attempt = @ + 1]

AudioGone(w) ==
    Note([w EXCEPT !.tts.isSpeaking = FALSE, !.tts.currentAudio = NULL], "revoke")

(***************************************************************************)
(* handleStreamResponse (script.js 1069-1176): one event of the stream,    *)
(* and the finally block followed by the return through callChatAPI into   *)
(* the finally block of processAudio.                                      *)
(***************************************************************************)
StreamEvents == {"workflow_started", "message", "workflow_finished",
                 "workflow_finished_blank", "done", "error"}

StreamFinally(w, s) ==
    ProcessAudioFinally([w EXCEPT !.state.currentStreamReader = NULL], s)

WorkflowFinished(w, s) ==
    IF w.tasks[s].messageElement
    THEN Speak([ResetFlags(w) EXCEPT !.tts.enabled = TRUE], s)
    ELSE w

HandleStreamEventEager(w, s, e) ==
    CASE e = "workflow_started" -> [w EXCEPT !.tasks[s].messageElement = TRUE]
      [] e \in {"message", "workflow_finished"} -> WorkflowFinished(w, s)
      [] e = "workflow_finished_blank" -> w
      [] OTHER -> StreamFinally(w, s)

HandleStreamEvent(w, s, e) ==
    CASE e = "workflow_started" -> [w EXCEPT !.tasks[s].messageElement = TRUE]
      [] e = "message" -> w
      [] e = "workflow_finished" -> WorkflowFinished(w, s)
      [] e = "workflow_finished_blank" -> w
      [] OTHER -> StreamFinally(w, s)

(***************************************************************************)
(* Actions: one per task of the event loop.                                *)
(***************************************************************************)
\* A read() of a cancelled reader resolves at once with done: its
\* continuation is a microtask and runs before any other task.
MicrotaskPending(w) ==
    \E s \in DOMAIN w.tasks : w.tasks[s].pc = "read" /\ w.tasks[s].readerCancelled

InBounds(w) ==
    /\ w.recorder.pendingStops <= MaxPendingStops
    /\ w.recorder.audioChunks <= MaxChunks

Step(w) ==
    /\ InBounds(w)
    /\ Apply(w)
    /\ UNCHANGED <<audioBuffer, conversation, transcription, chat, stream, detection,
                   service>>

Tick ==
    /\ ~MicrotaskPending(W)
    /\ ~TimerDue(W)
    /\ vad.running
    /\ state.continuousMonitoring
    /\ \E volume \in Volumes :
          LET w0 == Note(ClearEv(W), "tick")
          IN  Step(AdvanceTime(Observe(w0, CheckVoiceLevel(w0, volume), volume)))

\* a variant of the callback that starts a recording whatever the volume
InterruptResetAnyVolume(w) ==
    LET w1 == [w EXCEPT !.state.isInterrupted = FALSE]
    IN  IF ~w1.state.isRecording THEN StartRecording(w1) ELSE w1

\* the callback that executeGlobalInterrupt defers (script.js 617-624)
InterruptReset(w) ==
    LET w1 == [w EXCEPT !.state.isInterrupted = FALSE]
    IN  IF w1.state.lastVolume > VOICE_DETECTION_THRESHOLD /\ ~w1.state.isRecording
        THEN StartRecording(w1)
        ELSE w1

\* the setTimeout callback of executeGlobalInterrupt becomes due
InterruptTimer ==
    /\ ~MicrotaskPending(W)
    /\ 0 \in timers
    /\ Step(InterruptReset([Note(ClearEv(W), "interruptTimer") EXCEPT !.timers = @ \ {0}]))

\* the recordingTimer callback of startRecording (script.js 837-842)
RecordingTimeoutFires ==
    /\ ~MicrotaskPending(W)
    /\ state.recordingTimer = 0
    /\ LET w1 == [Note(ClearEv(W), "timeout") EXCEPT !.state.recordingTimer = NoTimer]
           w2 == IF w1.state.isRecording THEN StopRecording(w1) ELSE w1
       IN  Step([w2 EXCEPT !.ghost.scen.timedOut =
                              @ \/ (w1.state.isRecording /\ w2.ghost.scen.phase # "off")])

\* the callback of a recording timer that startRecording has overwritten
LeakedTimeoutFires ==
    /\ ~MicrotaskPending(W)
    /\ state.leakedTimer = 0
    /\ LET w1 == [Note(ClearEv(W), "timeout") EXCEPT !.state.leakedTimer = NoTimer]
       IN  Step(IF w1.state.isRecording THEN StopRecording(w1) ELSE w1)

\* window.interruptTTS (script.js 633-640)
InterruptTTS ==
    /\ ~MicrotaskPending(W)
    /\ Busy(W)
    /\ Step(ExecuteGlobalInterrupt([Note(ClearEv(W), "manual") EXCEPT
                                        !.state.shouldInterrupt = TRUE]))

\* mediaRecorder.start() begins to throw (the encoder cannot be started)
RecorderFault ==
    /\ ~MicrotaskPending(W)
    /\ recorder.state = "inactive"
    /\ ~recorder.faulty
    /\ Step([ClearEv(W) EXCEPT !.recorder.faulty = TRUE])

\* stopRecording called when the MediaRecorder is already inactive
\* (script.js 856-888): stop() throws InvalidStateError in some browsers and
\* returns silently in others
StopInactive(w, throws) ==
    IF throws THEN StopRecording(w)
    ELSE IF ~w.state.isRecording THEN w
    ELSE Ended([w EXCEPT !.state.isRecording = FALSE,
                         !.recorder.bufferIsRecording = FALSE,
                         !.state.panelProcessing = TRUE,
                         !.state.recordingTimer = NoTimer,
                         !.state.voiceStartTime = NoTime])

\* an error of the MediaRecorder during a recording: the recorder becomes
\* inactive, mediaRecorder.onerror (script.js 516-520) runs, and the recorder
\* goes on to deliver its data and the stop event
RecorderError ==
    /\ ~MicrotaskPending(W)
    /\ recorder.state = "recording"
    /\ \E throws \in BOOLEAN :
          Step(StopInactive([Note(ClearEv(W), "recorderError") EXCEPT
                                 !.recorder.state = "inactive",
                                 !.recorder.pendingStops = @ + 1,
                                 !.ghost.failed = TRUE], throws))

\* mediaRecorder.ondataavailable during a recording (script.js 498-502)
DataAvailable ==
    /\ ~MicrotaskPending(W)
    /\ recorder.state = "recording"
    /\ Step([ClearEv(W) EXCEPT !.recorder.audioChunks = @ + 1])

\* the last dataavailable event and mediaRecorder.onstop (script.js 498-513)
OnStop ==
    /\ ~MicrotaskPending(W)
    /\ recorder.pendingStops > 0
    /\ \E last \in {0, 1} :
          LET w1 == [Note(ClearEv(W), "onstop") EXCEPT !.recorder.pendingStops = @ - 1,
                                                       !.ghost.failed = FALSE]
          IN  IF recorder.audioChunks + last > 0
              THEN /\ FreeSlots(w1) # {}
                   /\ Step(ProcessAudio([w1 EXCEPT !.recorder.audioChunks = 0]))
              ELSE Step(Note(w1, "empty"))

\* a variant of OnTranscript that sends an empty transcript to the chat API
OnTranscriptAlwaysChat(w, s, outcome) ==
    IF outcome # "error" /\ ~Flagged(w)
    THEN Note([w EXCEPT !.tasks[s].pc = "chat"], "chat")
    ELSE ProcessAudioFinally(w, s)

\* processAudio after `await callSTTAPI` (script.js 958-1005): a non-empty
\* transcript is sent to the chat API unless an interrupt flag is set; an
\* empty one, or a failed request, goes straight to the finally block
OnTranscript(w, s, outcome) ==
    IF outcome = "text" /\ ~Flagged(w)
    THEN Note([w EXCEPT !.tasks[s].pc = "chat"], "chat")
    ELSE ProcessAudioFinally(w, s)

\* callSTTAPI settles (script.js 958-985, 1013-1029) with one of `outcomes`
SttSettles(outcomes) ==
    /\ ~MicrotaskPending(W)
    /\ \E s \in Slots, outcome \in outcomes :
          /\ tasks[s].pc = "stt"
          /\ Step(OnTranscript(Note(ClearEv(W), outcome), s, outcome))

SttResponse == SttSettles({"text", "blank", "error"})

\* the fetch of callChatAPI settles (script.js 1039-1062, 1069-1076)
ChatSettles(oks) ==
    /\ ~MicrotaskPending(W)
    /\ \E s \in Slots, ok \in oks :
          /\ tasks[s].pc = "chat"
          /\ LET w1 == ClearEv(W)
             IN  IF ok
                 THEN Step(Note([w1 EXCEPT !.state.currentStreamReader = s,
                                           !.tasks[s].pc = "read"], "stream"))
                 ELSE Step(ProcessAudioFinally(Note(w1, "error"), s))

ChatResponse == ChatSettles(BOOLEAN)

\* reader.read() settles (script.js 1086-1176) with one of `events`
StreamReads(events) ==
    \E s \in Slots, e \in events :
       /\ tasks[s].pc = "read"
       /\ IF tasks[s].readerCancelled THEN e = "done" ELSE ~MicrotaskPending(W)
       /\ Step(HandleStreamEvent(Note(ClearEv(W), e), s, e))

StreamRead == StreamReads(StreamEvents)

\* the fetch of _callTTSAPI settles (tts_service.js 123-141)
SynthSettles(oks) ==
    /\ ~MicrotaskPending(W)
    /\ \E s \in Slots, ok \in oks :
          /\ tasks[s].pc = "synth"
          /\ LET w1 == ClearEv(W)
             IN  IF ok
                 THEN Step(PlayAudio([w1 EXCEPT !.tasks[s].attempt = 0], s))
                 ELSE Step(SpeakFailed(w1, s))

SynthResponse == SynthSettles(BOOLEAN)

\* the same four with a network that answers every request
SttTranscribed == SttSettles({"text"})

ChatAnswered == ChatSettles({TRUE})

StreamDelivered == StreamReads({"workflow_started", "workflow_finished", "done"})

SynthDelivered == SynthSettles({TRUE})

\* the promise of audio.play() resolves (tts_service.js 430-434)
PlayStarted ==
    /\ ~MicrotaskPending(W)
    /\ \E s \in Slots :
          /\ tasks[s].pc = "starting"
          /\ Step([ClearEv(W) EXCEPT !.tasks[s].pc = "play"])

\* the promise of audio.play() rejects (tts_service.js 434-468)
PlayRejected ==
    /\ ~MicrotaskPending(W)
    /\ \E s \in Slots :
          /\ tasks[s].pc \in {"starting", "aborted"}
          /\ Step(PlayFailed(AudioGone(ClearEv(W)), s))

\* the wait between two attempts of _playAudioWithRetry ends (tts_service.js 652)
RetryPlay ==
    /\ ~MicrotaskPending(W)
    /\ \E s \in Slots :
          /\ tasks[s].pc = "retryWait"
          /\ Step(PlayAudio(ClearEv(W), s))

\* audio.onended (tts_service.js 345-355) and the onEnd callback (script.js 288-302)
PlaybackEnded ==
    /\ ~MicrotaskPending(W)
    /\ \E s \in Slots :
          /\ tasks[s].pc = "play"
          /\ Step(Settle(ResetFlags(AudioGone(Note(ClearEv(W), "ended"))), s,
                         1, tasks[s].errors))

\* audio.onerror (tts_service.js 358-396) and the onError callback (script.js 304-322)
PlaybackError ==
    /\ ~MicrotaskPending(W)
    /\ \E s \in Slots :
          /\ tasks[s].pc = "play"
          /\ Step(PlayFailed([ResetFlags(AudioGone(ClearEv(W))) EXCEPT
                                 !.tasks[s].errors = @ + 1], s))

\* checkVoiceLevel finds the monitoring switched off and does not schedule
\* itself again (script.js 677)
LoopExit ==
    /\ ~MicrotaskPending(W)
    /\ ~TimerDue(W)
    /\ vad.running
    /\ ~state.continuousMonitoring
    /\ Step([ClearEv(W) EXCEPT !.vad.running = FALSE])

\* one polling interval passes while no detection loop is running
TimePasses ==
    /\ ~MicrotaskPending(W)
    /\ ~TimerDue(W)
    /\ ~vad.running
    /\ Step(AdvanceTime(ClearEv(W)))

\* startVoiceDetection (script.js 668-774): a new loop with its own counters,
\* whose first checkVoiceLevel runs at once
StartVoiceDetection(w, volume) ==
    LET w0 == [w EXCEPT !.vad = [consecutiveVoiceFrames |-> 0,
                                 consecutiveSilenceFrames |-> 0, running |-> TRUE],
                        !.ghost.history = <<>>, !.ghost.silentRun = 0,
                        !.ghost.heldRun = 0]
    IN  AdvanceTime(Observe(w0, CheckVoiceLevel(w0, volume), volume))

\* window.toggleListening (script.js 573-579) with stopContinuousMonitoring
\* (547-566) and startContinuousMonitoring (526-542).  The user switches the
\* monitoring on again only after the loop that was switched off has exited.
ToggleListening ==
    /\ ~MicrotaskPending(W)
    /\ LET w0 == [Note(ClearEv(W), "toggleListening") EXCEPT !.ghost.scen = OffScenario]
       IN  IF state.continuousMonitoring
           THEN Step([w0 EXCEPT !.state.continuousMonitoring = FALSE])
           ELSE /\ ~vad.running
                /\ ~TimerDue(W)
                /\ \E volume \in Volumes :
                      Step(StartVoiceDetection(
                              [w0 EXCEPT !.state.continuousMonitoring = TRUE], volume))

\* TTSService.setEnabled (tts_service.js 60-65)
SetEnabled(w, enabled) ==
    LET w1 == [w EXCEPT !.tts.enabled = enabled]
    IN  IF ~enabled /\ w1.tts.isSpeaking THEN TtsStop(w1) ELSE w1

\* window.toggleTTS (script.js 1403-1413)
ToggleTTS ==
    /\ ~MicrotaskPending(W)
    /\ Step(SetEnabled(Note(ClearEv(W), "toggleTTS"), ~tts.enabled))

\* window.stopTTS (script.js 1432-1441)
StopTTS ==
    /\ ~MicrotaskPending(W)
    /\ Step([TtsStop(Note(ClearEv(W), "stopTTS")) EXCEPT !.state.shouldInterrupt = FALSE])

Next ==
    \/ Tick
    \/ InterruptTimer
    \/ RecordingTimeoutFires
    \/ InterruptTTS
    \/ DataAvailable
    \/ OnStop
    \/ SttResponse
    \/ ChatResponse
    \/ StreamRead
    \/ SynthResponse
    \/ PlayStarted
    \/ PlayRejected
    \/ RetryPlay
    \/ PlaybackEnded
    \/ PlaybackError

Spec == Init /\ [][Next]_vars

\* The interval timer and the timeouts fire when they are due, and a microtask
\* runs; the network and the audio element may take for ever.
LiveSpec ==
    /\ Init
    /\ [][Next]_vars
    /\ WF_vars(Tick)
    /\ WF_vars(InterruptTimer)
    /\ WF_vars(RecordingTimeoutFires)
    /\ WF_vars(StreamRead /\ MicrotaskPending(W))

\* the page with a user who also presses the listening toggle, audio that
\* arrives with the recorder's last dataavailable event and an audio element
\* that plays without failing
NextListening ==
    \/ Tick
    \/ InterruptTimer
    \/ RecordingTimeoutFires
    \/ OnStop
    \/ SttResponse
    \/ ChatResponse
    \/ StreamRead
    \/ SynthResponse
    \/ PlayStarted
    \/ PlaybackEnded
    \/ InterruptTTS
    \/ LoopExit
    \/ TimePasses
    \/ ToggleListening

SpecListening == Init /\ [][NextListening]_vars

\* the page with a MediaRecorder that may fail, audio that arrives with the
\* recorder's last dataavailable event and an audio element that plays
\* without failing
NextDevice ==
    \/ Tick
    \/ InterruptTimer
    \/ RecordingTimeoutFires
    \/ InterruptTTS
    \/ OnStop
    \/ SttResponse
    \/ ChatResponse
    \/ StreamRead
    \/ SynthResponse
    \/ PlayStarted
    \/ PlaybackEnded
    \/ RecorderFault
    \/ RecorderError
    \/ LeakedTimeoutFires

SpecDevice == Init /\ [][NextDevice]_vars

\* the page with a user who also presses the TTS toggle and the stop button,
\* and audio that arrives with the recorder's last dataavailable event
NextTtsControls ==
    \/ Tick
    \/ InterruptTimer
    \/ RecordingTimeoutFires
    \/ InterruptTTS
    \/ OnStop
    \/ SttResponse
    \/ ChatResponse
    \/ StreamRead
    \/ SynthResponse
    \/ PlayStarted
    \/ PlayRejected
    \/ RetryPlay
    \/ PlaybackEnded
    \/ PlaybackError
    \/ ToggleTTS
    \/ StopTTS

\* one utterance at a time, the samples not kept
InitTtsControls == Boot(1, FALSE)

SpecTtsControls == InitTtsControls /\ [][NextTtsControls]_vars

\* overlapping utterances whose audio arrives with the recorder's last
\* dataavailable event, with a network that answers every request, an audio
\* element that plays without failing and nobody pressing the interrupt key
NextTurns ==
    \/ Tick
    \/ InterruptTimer
    \/ RecordingTimeoutFires
    \/ OnStop
    \/ SttTranscribed
    \/ ChatAnswered
    \/ StreamDelivered
    \/ SynthDelivered
    \/ PlayStarted
    \/ PlaybackEnded

SpecTurns == InitTurns /\ [][NextTurns]_vars

TypeOK ==
    /\ state.currentStreamReader \in Slots \cup {NULL, DeadReader}
    /\ tts.currentAudio \in Slots \cup {NULL}
    /\ tts.currentAudio # NULL => tasks[tts.currentAudio].pc \in {"starting", "play"}
    /\ state.isRecording <=> recorder.state = "recording"

(***************************************************************************)
(* Properties                                                              *)
(***************************************************************************)
TickStep == "tick" \in ghost'.ev

RecordingStarts == ~state.isRecording /\ state'.isRecording

RecordingEnds == state.isRecording /\ ~state'.isRecording

\* the number of ticks of silence that make up QUESTION_DELAY
SilenceTicks ==
    CHOOSE n \in 1..QUESTION_DELAY :
        /\ n * VOICE_DETECTION_INTERVAL >= QUESTION_DELAY
        /\ (n - 1) * VOICE_DETECTION_INTERVAL < QUESTION_DELAY

\* C1 as stated: a recording starts only when the last VOICE_CONFIRM_FRAMES
\* ticks were all above the threshold, and every tick that completes such a
\* run while nothing is being recorded starts one.
C1_StartOnlyAfterConfirmedRun ==
    [][/\ RecordingStarts => AllVoiced(ghost'.history)
       /\ (TickStep /\ AllVoiced(ghost'.history) /\ ~state.isRecording)
              => state'.isRecording]_vars

\* C1 amended: a tick starts a recording exactly when it completes a run of
\* VOICE_CONFIRM_FRAMES ticks above the threshold while the host is neither
\* recording nor (after the interrupt that tick may execute) processing; a
\* tick at or below the threshold resets the voice count; the one other start
\* is the interrupt timer's, which needs only the last sampled volume to be
\* above the threshold.
C1_StartByTickOrInterruptTimer ==
    [][/\ TickStep =>
            /\ RecordingStarts <=> /\ AllVoiced(ghost'.history)
                                   /\ ~state.isRecording
                                   /\ ~state'.isProcessing
            /\ state'.lastVolume <= VOICE_DETECTION_THRESHOLD
                  => vad'.consecutiveVoiceFrames = 0
       /\ (RecordingStarts /\ ~TickStep) =>
            /\ 0 \in timers /\ 0 \notin timers'
            /\ state.lastVolume > VOICE_DETECTION_THRESHOLD]_vars

\* a tick has just started a recording on a confirmed run
C1_Witness ==
    /\ "tick" \in ghost.ev
    /\ state.isRecording
    /\ state.recordingTimer = Remaining(RECORDING_TIMEOUT)
    /\ AllVoiced(ghost.history)

\* C2: while a recording is on, a tick ends it exactly when it is the
\* SilenceTicks-th consecutive tick at or below the threshold (QUESTION_DELAY
\* worth of ticks, rounded up), and a tick above the threshold resets the
\* silence count.
C2_SilenceStop ==
    [][TickStep =>
          /\ RecordingEnds <=> (state.isRecording /\ ghost'.silentRun = SilenceTicks)
          /\ state'.isRecording => ghost'.silentRun < SilenceTicks
          /\ state'.lastVolume > VOICE_DETECTION_THRESHOLD
                => vad'.consecutiveSilenceFrames = 0]_vars

\* a tick has just ended a recording on the SilenceTicks-th silent tick
C2_Witness ==
    /\ "tick" \in ghost.ev
    /\ ~state.isRecording
    /\ recorder.pendingStops > 0
    /\ vad.consecutiveSilenceFrames = 0
    /\ ghost.silentRun = SilenceTicks

ScenarioStarts == IF ghost.scen.confirmed THEN 1 ELSE 0

ScenarioEnds ==
    IF ghost.scen.confirmed /\ ghost.scen.phase = "after" /\ ghost.silentRun >= SilenceTicks
    THEN 1 ELSE 0

\* C3 as stated: starts and ends of recordings alternate, and a loudness
\* sequence of silence, one run of voice and silence again yields one start
\* when the run reaches VOICE_CONFIRM_FRAMES ticks and one end when the
\* silence after it reaches SilenceTicks ticks, and nothing else.
C3_OneStartOneEnd ==
    /\ ghost.open \in {0, 1}
    /\ ghost.scen.phase \in {"voice", "after"} =>
          /\ ghost.scen.starts = ScenarioStarts
          /\ ghost.scen.ends = ScenarioEnds

\* C3 amended: the same, for as long as the recording timeout has not ended
\* the recording of the run.
C3_OneStartOneEndUnlessTimedOut ==
    /\ ghost.open \in {0, 1}
    /\ (ghost.scen.phase \in {"voice", "after"} /\ ~ghost.scen.timedOut) =>
          /\ ghost.scen.starts = ScenarioStarts
          /\ ghost.scen.ends = ScenarioEnds

\* one start and one end, and the silence went on after the end
C3_Witness ==
    /\ ghost.scen.phase = "after"
    /\ ghost.scen.confirmed
    /\ ~ghost.scen.timedOut
    /\ ghost.scen.starts = 1
    /\ ghost.scen.ends = 1
    /\ ghost.silentRun > SilenceTicks

\* C4: once the loudness has been above the threshold for
\* VOICE_CONFIRM_FRAMES consecutive ticks that all found the host busy, the
\* interrupt is executed or the host stops being busy.
C4_BargeIn ==
    (Busy(W) /\ ghost.heldRun >= VOICE_CONFIRM_FRAMES)
        ~> ("interrupt" \in ghost.ev \/ ~Busy(W))

BusyNext == state'.isProcessing \/ tts'.isSpeaking

\* C5: the first tick above the threshold of a run sets the interrupt flag
\* exactly when the host is busy, and a tick that finds the host busy after
\* the previous tick requested an interrupt executes the interrupt.
C5_EarlyInterrupt ==
    [][TickStep =>
          /\ vad'.consecutiveVoiceFrames = 1 => (ghost'.requested <=> BusyNext)
          /\ ghost'.requested => state'.shouldInterrupt
          /\ (ghost.requested /\ Busy(W)) => "interrupt" \in ghost'.ev]_vars

\* C6: the step that executes the global interrupt leaves the stream reader
\* that was registered when it ran cancelled, no reader registered, the TTS
\* not speaking and the processing flag clear.
C6_InterruptCancelsAll ==
    [][("interrupt" \in ghost'.ev) =>
          /\ ghost'.cut \in Slots => tasks'[ghost'.cut].readerCancelled
          /\ state'.currentStreamReader = NULL
          /\ ~tts'.isSpeaking
          /\ ~state'.isProcessing]_vars

\* an interrupt has just cancelled a stream reader and stopped a playback
C6_Witness ==
    /\ "interrupt" \in ghost.ev
    /\ ghost.cut \in Slots
    /\ tasks[ghost.cut].readerCancelled
    /\ tasks[ghost.cut].pc = "hung"

\* C7: a turn that was in flight when an interrupt was executed issues no
\* chat request and starts no playback afterwards.
C7_InterruptedTurnStaysCancelled ==
    [][\A s \in ghost.interrupted :
          /\ ~(tasks[s].pc = "stt" /\ tasks'[s].pc = "chat")
          /\ ~(tasks[s].pc # "starting" /\ tasks'[s].pc = "starting")]_vars

\* C8: the final answer of a stream is handed to speak only if no interrupt
\* flag is set at that moment.
C8_NoSpeechWhenFlagged ==
    [][\A s \in Slots :
          (tasks[s].pc = "read" /\ tasks'[s].pc = "synth") => ~Flagged(W)]_vars

\* the processAudio invocations that no interrupt has caught in flight
Running == {s \in Slots : Active(tasks[s]) /\ s \notin ghost.interrupted}

\* a step of an older invocation alone, while the newest one is processing
OlderTurnSettles ==
    /\ ghost.newest \in Slots
    /\ ghost'.newest = ghost.newest
    /\ tasks[ghost.newest].pc \in {"stt", "chat", "read"}
    /\ tasks'[ghost.newest] = tasks[ghost.newest]
    /\ \E s \in Slots \ {ghost.newest} : Active(tasks[s]) /\ tasks'[s] # tasks[s]
    /\ ghost'.ev = {}

\* C9: a step of an older invocation leaves the processing flag and the
\* stream reader registration of the newest invocation as they are.
C9_LateCompletionKeepsNewerState ==
    [][OlderTurnSettles =>
          /\ state.isProcessing => state'.isProcessing
          /\ state.currentStreamReader = ghost.newest
                => state'.currentStreamReader = ghost.newest]_vars

\* C10: at most one invocation that no interrupt has cancelled is in flight,
\* and at most one chat stream is being read.
C10_OnePipelineInFlight ==
    /\ Cardinality(Running) <= 1
    /\ Cardinality({s \in Slots : tasks[s].pc = "read"}) <= 1

\* C11: a recording starts (by a tick or by the interrupt timer) only when the
\* host is not recording and the processing flag is clear.
C11_StartOnlyWhenIdle ==
    [][(ghost'.open = ghost.open + 1) =>
          (~state.isRecording /\ ~state'.isProcessing)]_vars

SilentTickStep == TickStep /\ state'.lastVolume <= VOICE_DETECTION_THRESHOLD

\* the latched voice start time one tick later
Aged(t) == IF t = NoTime THEN NoTime ELSE Inc(t)

\* C13 as stated: a tick at or below the threshold resets the voice count;
\* when no recording is active it clears voiceStartTime and starts no
\* recording; when a recording is active it leaves voiceStartTime as it is.
C13_BlipReset ==
    [][SilentTickStep =>
          /\ vad'.consecutiveVoiceFrames = 0
          /\ ~state.isRecording =>
                (state'.voiceStartTime = NoTime /\ ~state'.isRecording)
          /\ state.isRecording =>
                state'.voiceStartTime = Aged(state.voiceStartTime)]_vars

\* C13 amended: the same, except that the silent tick that ends the
\* recording clears voiceStartTime.
C13_BlipResetUnlessStopped ==
    [][SilentTickStep =>
          /\ vad'.consecutiveVoiceFrames = 0
          /\ ~state.isRecording =>
                (state'.voiceStartTime = NoTime /\ ~state'.isRecording)
          /\ (state.isRecording /\ state'.isRecording) =>
                state'.voiceStartTime = Aged(state.voiceStartTime)
          /\ RecordingEnds => state'.voiceStartTime = NoTime]_vars

\* a voiced tick followed by a silent one, before any recording
C13_Witness ==
    /\ "tick" \in ghost.ev
    /\ Len(ghost.history) >= 2
    /\ ghost.history[Len(ghost.history) - 1]
    /\ ~ghost.history[Len(ghost.history)]
    /\ ghost.open = 0
    /\ ~state.isRecording
    /\ state.voiceStartTime = NoTime
    /\ vad.consecutiveVoiceFrames = 0

\* C14: an invocation issues its chat request only from the step in which the
\* transcript is returned, and its speech synthesis starts only in the step
\* that handles workflow_finished while the stream is being read.
C14_SttChatTtsInOrder ==
    [][\A s \in Slots :
          /\ (tasks[s].pc # "chat" /\ tasks'[s].pc = "chat") => tasks[s].pc = "stt"
          /\ (tasks[s].pc # "read" /\ tasks'[s].pc = "read") =>
                tasks[s].pc \in {"chat", "synth", "starting", "aborted", "play"}
          /\ (tasks[s].pc # "synth" /\ tasks'[s].pc = "synth") =>
                (tasks[s].pc = "read" /\ "workflow_finished" \in ghost'.ev)]_vars

\* the final answer has just been handed to the speech synthesis
C14_Witness ==
    /\ "workflow_finished" \in ghost.ev
    /\ \E s \in Slots : tasks[s].pc = "synth" /\ tasks[s].messageElement

(***************************************************************************)
(* C20: when the transcription returns an empty transcript, no chat        *)
(* request and no speech request is issued and the pipeline is back to     *)
(* idle with isProcessing false; when it returns a non-empty transcript,   *)
(* the pipeline issues the chat request.                                   *)
(***************************************************************************)
SttReturns(s) == tasks[s].pc = "stt" /\ tasks'[s].pc # "stt"

C20_EmptyTranscript ==
    [][\A s \in Slots : SttReturns(s) =>
          /\ "blank" \in ghost'.ev =>
                (tasks'[s].pc = "idle" /\ ~state'.isProcessing)
          /\ "text" \in ghost'.ev => tasks'[s].pc = "chat"]_vars

\* C20 (as amended): the same, but a non-empty transcript issues the chat
\* request only when no interrupt flag is set at that moment; with a flag set
\* the pipeline ends without a chat request.
C20_EmptyTranscriptUnlessInterrupted ==
    [][\A s \in Slots : SttReturns(s) =>
          /\ "blank" \in ghost'.ev =>
                (tasks'[s].pc = "idle" /\ ~state'.isProcessing)
          /\ "text" \in ghost'.ev =>
                IF state.isInterrupted \/ state.shouldInterrupt
                THEN tasks'[s].pc = "idle"
                ELSE tasks'[s].pc = "chat"]_vars

C20_Witness ==
    /\ "blank" \in ghost.ev
    /\ \A s \in Slots : tasks[s].pc = "idle"
    /\ ~state.isProcessing

(***************************************************************************)
(* C15: the TTS service never has two playbacks audible at the same time:  *)
(* at most one audio element is playing.                                   *)
(***************************************************************************)
Audible == {s \in Slots : tasks[s].pc = "play"}

C15_OnePlaybackAtATime == Cardinality(Audible) <= 1

(***************************************************************************)
(* C16: every speak() call completes exactly once: when it leaves its      *)
(* synthesis and playback phases it has called exactly one of onEnd and    *)
(* onError, exactly once, also when the playback was ended by stop().      *)
(***************************************************************************)
Speaking(t) == t.pc \in {"synth", "starting", "aborted", "play", "retryWait"}

SpeakOver(s) == Speaking(tasks[s]) /\ ~Speaking(tasks'[s])

C16_SpeakCompletesOnce ==
    [][\A s \in Slots : SpeakOver(s) =>
          ghost'.spoke \in {[ends |-> 1, errors |-> 0], [ends |-> 0, errors |-> 1]}]_vars

(***************************************************************************)
(* C17: the object URL of a playback is revoked exactly once, whichever    *)
(* way the playback ends: ended, error, failed start or stop().            *)
(***************************************************************************)
Playback(t) == t.pc \in {"starting", "aborted", "play"}

PlaybackOver(s) == Playback(tasks[s]) /\ ~Playback(tasks'[s])

C17_UrlRevokedOnce ==
    [][\A s \in Slots : PlaybackOver(s) => "revoke" \in ghost'.ev]_vars

C18_StopIdempotent ==
    [][/\ "stopTTS" \in ghost'.ev =>
             /\ ~tts'.isSpeaking
             /\ tts'.currentAudio = NULL
             /\ TtsStop(W)' = W'
             /\ tts.currentAudio = NULL =>
                   (tasks' = tasks /\ tts' = [tts EXCEPT !.isSpeaking = FALSE])
       /\ ("interrupt" \in ghost'.ev /\ state.currentStreamReader = NULL) =>
             /\ state'.currentStreamReader = NULL
             /\ \A s \in Slots : tasks'[s].readerCancelled => tasks[s].readerCancelled]_vars

C18_Witness ==
    /\ "stopTTS" \in ghost.ev
    /\ \A s \in Slots : tasks[s].pc = "idle"
    /\ ~tts.isSpeaking
    /\ tts.currentAudio = NULL

(***************************************************************************)
(* C19: while the TTS is disabled, the speak() call the coordinator makes  *)
(* on the final answer returns at once: no synthesis request, no playback, *)
(* and the TTS stays disabled.                                             *)
(***************************************************************************)
C19_DisabledStaysSilent ==
    [][\A s \in Slots :
          (~tts.enabled /\ tasks[s].pc = "read" /\ "workflow_finished" \in ghost'.ev)
             => (tts' = tts /\ tasks'[s].pc = "read")]_vars

(***************************************************************************)
(* C21: a failure always leads back to listening.  The step that handles a *)
(* failed transcription, a failed chat request or a broken answer stream   *)
(* ends that pipeline with isProcessing false; a speak() call that fails   *)
(* returns to the stream loop with the TTS neither speaking nor            *)
(* processing; and a tick that completes a confirmed voice run while       *)
(* nothing is recorded or processed starts a new recording.                *)
(***************************************************************************)
InRequest(t) == t.pc \in {"stt", "chat", "read"}

SpeakFails == ghost'.spoke.ends = 0 /\ ghost'.spoke.errors > 0

C22_NoStaleInterruptFlag == [][("dropped" \notin ghost'.ev)]_vars

(***************************************************************************)
(* C27: a recording that ends with no captured chunk produces no clip and  *)
(* no transcription request, and the page is back to listening: nothing is *)
(* processing and the status panel does not show processing.               *)
(***************************************************************************)
C27_EmptyRecording ==
    [][("empty" \in ghost'.ev) =>
          /\ tasks' = tasks
          /\ ~state'.isProcessing
          /\ ~state'.panelProcessing]_vars

(***************************************************************************)
(* C26: the rolling buffer is paused only during a recording: in every     *)
(* state AudioBuffer.isRecording is true only while state.isRecording is,  *)
(* so whenever the page is back to listening the buffer is armed again.    *)
(***************************************************************************)
C26_BufferRearmed == recorder.bufferIsRecording => state.isRecording

(***************************************************************************)
(* C28: a recorder error during a recording makes that recording fail: the *)
(* handler leaves isRecording false and the recording timer cleared, and   *)
(* the stop event of the failed recording delivers no clip to the          *)
(* transcription; a recorder that cannot be started starts no recording.   *)
(***************************************************************************)
C28_FailedRecordingDropped ==
    [][/\ "recorderError" \in ghost'.ev =>
             (~state'.isRecording /\ state'.recordingTimer = NoTimer)
       /\ ghost.failed => \A s \in Slots : tasks'[s].pc = "stt" => tasks[s].pc = "stt"
       /\ recorder.faulty => ~RecordingStarts]_vars

(***************************************************************************)
(* The AudioBuffer class (script.js 104-205) and the chunks of a           *)
(* recording.  A buffered entry and a recorded chunk are held as the       *)
(* Date.now() of their arrival; audioBuffer.op names the last call.        *)
(***************************************************************************)
Timestamps == 1..MaxClock

\* addToBuffer: push {data, timestamp: Date.now()}
AddToBuffer(buffer, now) == Append(buffer, now)

\* trimBuffer: keep the entries with timestamp > Date.now() - bufferDuration
TrimBuffer(buffer, now) ==
    LET cutoffTime == now - BUFFER_DURATION
    IN  SelectSeq(buffer, LAMBDA timestamp : timestamp > cutoffTime)

\* getBufferedAudio: the entries with timestamp >= fromTimestamp
GetBufferedAudio(buffer, fromTimestamp) ==
    SelectSeq(buffer, LAMBDA timestamp : timestamp >= fromTimestamp)

\* processor.onaudioprocess
OnAudioProcess(a) ==
    IF ~a.isRecording
    THEN [a EXCEPT !.buffer = TrimBuffer(AddToBuffer(@, a.now), a.now)]
    ELSE a

\* AudioBuffer.startRecording(fromTimestamp); the returned array is held in
\* bufferedData, the local of the caller
BufferStartRecording(a, fromTimestamp) ==
    [a EXCEPT !.isRecording = TRUE,
              !.fromTimestamp = fromTimestamp,
              !.bufferedData = IF fromTimestamp # NoTime
                               THEN GetBufferedAudio(a.buffer, fromTimestamp)
                               ELSE <<>>]

\* AudioBuffer.stopRecording(); the returned copy is only counted by the caller
BufferStopRecording(a) == [a EXCEPT !.isRecording = FALSE]

\* startRecording of the page: bufferedData is logged, mediaRecorder.start(100)
HostStartRecording(a, voiceStartTime) ==
    LET a1 == IF voiceStartTime # NoTime
              THEN BufferStartRecording(a, voiceStartTime)
              ELSE [a EXCEPT !.bufferedData = <<>>, !.fromTimestamp = NoTime]
    IN  [a1 EXCEPT !.recording = TRUE]

\* mediaRecorder.onstop: the Blob of audioChunks is handed to processAudio
RecorderOnStop(a) ==
    IF a.audioChunks # <<>>
    THEN [a EXCEPT !.clip = a.audioChunks, !.audioChunks = <<>>, !.op = "clip"]
    ELSE a

\* stopRecording of the page, and the stop event it queues
HostStopRecording(a) ==
    RecorderOnStop([BufferStopRecording(a) EXCEPT !.recording = FALSE, !.op = "stop"])

BufferStep(a) ==
    /\ Len(a.buffer) <= MaxBuffered
    /\ audioBuffer' = a
    /\ UNCHANGED <<state, vad, recorder, tts, timers, tasks, conversation, transcription, chat,
                   stream, detection, service, ghost>>

\* Date.now() advances
ClockAdvances ==
    /\ audioBuffer.now < MaxClock
    /\ BufferStep([audioBuffer EXCEPT !.now = @ + 1, !.op = "clock"])

AudioProcess ==
    /\ Len(audioBuffer.buffer) <= MaxBuffered
    /\ BufferStep(OnAudioProcess([audioBuffer EXCEPT !.op = "audioprocess"]))

BeginRecording ==
    /\ ~audioBuffer.recording
    /\ \E voiceStartTime \in {NoTime} \cup 1..audioBuffer.now :
          BufferStep(HostStartRecording([audioBuffer EXCEPT !.op = "start"], voiceStartTime))

\* mediaRecorder.ondataavailable with data
ChunkCaptured ==
    /\ audioBuffer.recording
    /\ Len(audioBuffer.audioChunks) < MaxChunks + 1
    /\ BufferStep([audioBuffer EXCEPT !.audioChunks = Append(@, audioBuffer.now),
                                      !.op = "data"])

EndRecording ==
    /\ audioBuffer.recording
    /\ BufferStep(HostStopRecording(audioBuffer))

NextBuffer ==
    \/ ClockAdvances
    \/ AudioProcess
    \/ BeginRecording
    \/ ChunkCaptured
    \/ EndRecording

SpecBuffer == Init /\ [][NextBuffer]_vars

Ordered(buffer) == \A i, j \in 1..Len(buffer) : i <= j => buffer[i] <= buffer[j]

Recent(buffer, now) == \A i \in 1..Len(buffer) : buffer[i] >= now - BUFFER_DURATION

\* the entries of buffer that are in kept, in their order
Keeping(buffer, kept) == SelectSeq(buffer, LAMBDA timestamp : timestamp \in kept)

(***************************************************************************)
(* C25: after every audio-process callback, AudioBuffer.startRecording and *)
(* AudioBuffer.stopRecording the entries of the rolling buffer are in      *)
(* non-decreasing timestamp order and none is older than bufferDuration    *)
(* relative to now, and a callback that buffers keeps, of the old entries  *)
(* and the new one, exactly those with timestamp >= now - bufferDuration.  *)
(***************************************************************************)
C25_BufferInvariant ==
    [][/\ audioBuffer'.op \in {"audioprocess", "start", "stop", "clip"} =>
             /\ Ordered(audioBuffer'.buffer)
             /\ Recent(audioBuffer'.buffer, audioBuffer'.now)
       /\ (audioBuffer'.op = "audioprocess" /\ ~audioBuffer.isRecording) =>
             audioBuffer'.buffer =
                 Keeping(Append(audioBuffer.buffer, audioBuffer.now),
                         {t \in Timestamps : t >= audioBuffer.now - BUFFER_DURATION})]_vars

(***************************************************************************)
(* C24: the pre-roll that AudioBuffer.startRecording(t) retrieves with     *)
(* getBufferedAudio(t) is exactly the buffered entries with timestamp >= t *)
(* in their order, holds no entry older than bufferDuration relative to    *)
(* now, and the retrieval leaves the buffered entries as they were.        *)
(***************************************************************************)
C24_PreRollRead ==
    [][(audioBuffer'.op = "start" /\ audioBuffer'.fromTimestamp # NoTime) =>
          /\ audioBuffer'.bufferedData =
                 Keeping(audioBuffer.buffer,
                         {t \in Timestamps : t >= audioBuffer'.fromTimestamp})
          /\ Recent(audioBuffer'.bufferedData, audioBuffer'.now)
          /\ audioBuffer'.buffer = audioBuffer.buffer]_vars

(***************************************************************************)
(* C23: the clip handed to the transcription starts with the pre-roll: the *)
(* chunks retrieved from the rolling buffer at the start of the recording, *)
(* followed by the chunks captured after the start.                        *)
(***************************************************************************)
C23_ClipIncludesPreRoll ==
    [][(audioBuffer'.op = "clip") =>
          audioBuffer'.clip = audioBuffer.bufferedData \o audioBuffer.audioChunks]_vars

(***************************************************************************)
(* The conversation id (script.js 219, 660, 1046, 1099).  The empty id is  *)
(* NULL.  The chat endpoint opens a conversation for a request that sends  *)
(* the empty id and answers any other request within the conversation it   *)
(* names.  conversation.latest, .fresh and .op are history: the id that    *)
(* the last workflow_started event carried since the last clear, whether   *)
(* a request was sent since the last clear, and the last call.             *)
(***************************************************************************)
ChatSlots == 1..MaxPipelines

\* callChatAPI up to its fetch: the body carries state.conversationId
CallChatAPI(c, s) ==
    [c EXCEPT !.chats[s] = [pc |-> "fetch", sent |-> c.conversationId],
              !.fresh = FALSE, !.op = "request"]

\* the workflow_started branch of handleStreamResponse
WorkflowStartedId(c, conversation_id) ==
    [c EXCEPT !.conversationId = IF conversation_id # NULL THEN conversation_id ELSE @,
              !.latest = IF conversation_id # NULL THEN conversation_id ELSE @]

\* window.clearConversation
ClearConversationId(c) ==
    [c EXCEPT !.conversationId = NULL, !.latest = NULL, !.fresh = TRUE, !.op = "clear"]

ConversationStep(c) ==
    /\ conversation' = c
    /\ UNCHANGED <<state, vad, recorder, tts, timers, tasks, audioBuffer, transcription, chat,
                   stream, detection, service, ghost>>

ChatRequested ==
    \E s \in ChatSlots :
        /\ conversation.chats[s].pc = "idle"
        /\ ConversationStep(CallChatAPI(conversation, s))

\* the stream of a request delivers workflow_started
WorkflowStarted ==
    \E s \in ChatSlots :
        /\ conversation.chats[s].pc = "fetch"
        /\ LET sent == conversation.chats[s].sent
               opens == sent = NULL
               c1 == [conversation EXCEPT !.chats[s].pc = "read", !.op = "started",
                                          !.assigned = IF opens THEN @ + 1 ELSE @]
           IN  /\ opens => conversation.assigned < MaxIds
               /\ \E carried \in BOOLEAN :
                     ConversationStep(WorkflowStartedId(c1,
                         IF ~carried THEN NULL ELSE IF opens THEN c1.assigned ELSE sent))

\* the stream of a request ends, or its request fails
ChatDone ==
    \E s \in ChatSlots :
        /\ conversation.chats[s].pc # "idle"
        /\ ConversationStep([conversation EXCEPT !.chats[s] = NoChat, !.op = "done"])

\* the clear button
ClearConversation ==
    /\ conversation.fresh \in BOOLEAN
    /\ ConversationStep(ClearConversationId(conversation))

NextConversation ==
    \/ ChatRequested
    \/ WorkflowStarted
    \/ ChatDone
    \/ ClearConversation

SpecConversation == Init /\ [][NextConversation]_vars

\* the id that the request sent in this step carries
SentNow(s) == conversation'.chats[s].sent

Requests(s) == conversation'.op = "request" /\ conversation.chats[s].pc = "idle"
                  /\ conversation'.chats[s].pc = "fetch"

(***************************************************************************)
(* C29: the first chat request of a session and the first after            *)
(* clearConversation send the empty conversation id; any other request     *)
(* sends the id that the last workflow_started event carried since the     *)
(* last clear, when one did.                                               *)
(***************************************************************************)
C29_ConversationIdEchoed ==
    [][\A s \in ChatSlots : Requests(s) =>
          /\ conversation.fresh => SentNow(s) = NULL
          /\ (~conversation.fresh /\ conversation.latest # NULL) =>
                SentNow(s) = conversation.latest]_vars

(***************************************************************************)
(* The transcription of a recorded clip on the three pages: processAudio   *)
(* with attemptTranscription of the push-to-talk page (part_001 771-866,   *)
(* part_000 351-451), processRealtimeAudio of its voice mode (part_001     *)
(* 498-610) and processAudio with callSTTAPI of the monitoring page        *)
(* (script.js 947-1029).  An error is held by a name that tells what the   *)
(* catch blocks test; transcription.attempts, .delays, .failure and .op    *)
(* are history: the requests sent for the clip, the delays waited, the     *)
(* failure of the last request and the last step.                          *)
(***************************************************************************)
Pages == {"push", "realtime", "monitor"}

\* a clip of at most 25 MB, or a larger one
Sizes == {"fits", "large"}

\* what a request to /transcribe can end with: a transcript; the abort of the
\* 30 s timer; a rejected fetch, as Chrome and as Firefox word it; a non-2xx
\* response, with a body that holds the word timeout or not; success: false;
\* a transcript with no text
Settlements == {"text", "AbortError", "Failed to fetch", "NetworkError", "service",
                "service timeout", "refused", "no speech"}

\* the substrings the catch blocks look for that error.message holds
Words(error) ==
    CASE error = "Failed to fetch" -> {"Failed to fetch"}
      [] error = "NetworkError" -> {"Network"}
      [] error = "service timeout" -> {"timeout"}
      [] OTHER -> {}

\* error.message.includes('Failed to fetch') || includes('Network') || includes('timeout')
Retryable(error) == Words(error) \cap {"Failed to fetch", "Network", "timeout"} # {}

\* connection failure or timeout
Transient(error) == error \in {"Failed to fetch", "NetworkError", "AbortError"}

\* an answer of the endpoint that reports an error
WellFormed(error) == error \in {"service", "service timeout", "refused"}

\* the catch and finally of processAudio and of processRealtimeAudio
TranscriptionFinally(t, status) ==
    [t EXCEPT !.pc = "idle", !.audioChunks = 0, !.status = status]

\* the catch block of attemptTranscription
AttemptCatch(t, error) ==
    IF error = "AbortError"
    THEN TranscriptionFinally(t, "failed")
    ELSE IF t.retryCount < maxRetries /\ Retryable(error)
    THEN [t EXCEPT !.retryCount = @ + 1,
                   !.remaining = RETRY_DELAY * (t.retryCount + 1),
                   !.delays = Append(@, RETRY_DELAY * (t.retryCount + 1)),
                   !.pc = "wait"]
    ELSE TranscriptionFinally(t, "failed")

\* fetch(`${API_BASE}/transcribe`)
FetchTranscribe(t) == [t EXCEPT !.pc = "fetch", !.attempts = @ + 1]

\* attemptTranscription up to its fetch
AttemptTranscription(t) ==
    IF t.size = "large"
    THEN AttemptCatch([t EXCEPT !.failure = "too large"], "too large")
    ELSE FetchTranscribe(t)

\* processRealtimeAudio up to its fetch
ProcessRealtimeAudio(t) ==
    IF t.size = "large"
    THEN TranscriptionFinally([t EXCEPT !.failure = "too large"], "failed")
    ELSE FetchTranscribe(t)

\* callSTTAPI up to its fetch
CallSTTAPI(t) == FetchTranscribe(t)

\* the page's function that takes the clip
Transcribe(t) ==
    CASE t.page = "push" -> AttemptTranscription(t)
      [] t.page = "realtime" -> ProcessRealtimeAudio(t)
      [] t.page = "monitor" -> CallSTTAPI(t)

\* the page's handling of a failed request
TranscribeFails(t, error) ==
    IF t.page = "push" THEN AttemptCatch(t, error) ELSE TranscriptionFinally(t, "failed")

TranscriptionStep(t) ==
    /\ transcription' = t
    /\ UNCHANGED <<state, vad, recorder, tts, timers, tasks, audioBuffer, conversation, chat,
                   stream, detection, service, ghost>>

\* a recording ends with chunks and the page processes the clip
ProcessRecording ==
    /\ transcription.pc = "idle"
    /\ \E n \in 1..(MaxChunks + 1), page \in Pages, size \in Sizes :
          TranscriptionStep(Transcribe(
              [transcription EXCEPT !.audioChunks = n, !.page = page, !.size = size,
                                    !.retryCount = 0, !.attempts = 0,
                                    !.delays = <<>>, !.failure = "none",
                                    !.status = "converting", !.op = "start"]))

\* the request settles
TranscribeSettles ==
    /\ transcription.pc = "fetch"
    /\ \E outcome \in Settlements :
          LET t == [transcription EXCEPT !.op = "settle", !.failure = outcome]
          IN  TranscriptionStep(IF outcome = "text"
                                THEN TranscriptionFinally([t EXCEPT !.failure = "none"], "done")
                                ELSE TranscribeFails(t, outcome))

\* the delay before a retry passes
RetryDelayPasses ==
    /\ transcription.pc = "wait"
    /\ LET t == [transcription EXCEPT !.remaining = @ - 1, !.op = "delay"]
       IN  TranscriptionStep(IF t.remaining = 0 THEN AttemptTranscription(t) ELSE t)

(***************************************************************************)
(* sendMessageToAI with attemptSendMessage and handleStreamResponse of the *)
(* push-to-talk page (part_001 1006-1153, part_000 525-670).               *)
(* chat.requests, .streamed, .failure and .op are history: the requests    *)
(* sent for the message, whether handleStreamResponse was entered for it,  *)
(* the failure of the last step and the last step.                         *)
(***************************************************************************)
\* what a request to /chat can end with: a response that is ok, the abort of
\* the 60 s timer, a rejected fetch, a non-2xx response
ChatSettlements == {"ok", "AbortError", "Failed to fetch", "NetworkError",
                    "service", "service timeout"}

\* what reader.read() can reject with: a TypeError as Chrome and as Firefox word it
ReadErrors == {"network error", "NetworkError"}

\* the finally of sendMessageToAI
SendFinally(c, status) == [c EXCEPT !.pc = "idle", !.status = status]

\* the catch block of attemptSendMessage
AttemptSendCatch(c, error) ==
    IF c.retryCount < maxRetriesChat /\ (error = "AbortError" \/ Retryable(error))
    THEN [c EXCEPT !.retryCount = @ + 1,
                   !.remaining = CHAT_RETRY_DELAY * (c.retryCount + 1),
                   !.pc = "wait"]
    ELSE SendFinally(c, "failed")

\* attemptSendMessage up to its fetch
AttemptSendMessage(c) == [c EXCEPT !.pc = "fetch", !.requests = @ + 1]

ChatStep(c) ==
    /\ chat' = c
    /\ UNCHANGED <<state, vad, recorder, tts, timers, tasks, audioBuffer, conversation,
                   transcription, stream, detection, service, ghost>>

\* sendMessageToAI is called with a message
SendMessageToAI ==
    /\ chat.pc = "idle"
    /\ ChatStep(AttemptSendMessage([NoMessage EXCEPT !.status = "sending", !.op = "send"]))

\* the request settles; a response that is ok enters handleStreamResponse
ChatFetchSettles ==
    /\ chat.pc = "fetch"
    /\ \E outcome \in ChatSettlements :
          LET c == [chat EXCEPT !.op = "settle", !.failure = outcome]
          IN  ChatStep(IF outcome = "ok"
                       THEN [c EXCEPT !.pc = "read", !.streamed = TRUE, !.failure = "none"]
                       ELSE AttemptSendCatch(c, outcome))

\* a message event of the stream is handled
ChatMessageShown ==
    /\ chat.pc = "read"
    /\ ChatStep([chat EXCEPT !.assistantMessage = TRUE, !.op = "message"])

\* the stream ends
ChatStreamDone ==
    /\ chat.pc = "read"
    /\ ChatStep(SendFinally([chat EXCEPT !.op = "done"], "done"))

\* reader.read() rejects: the catch of handleStreamResponse throws the error again
ChatReadFails ==
    /\ chat.pc = "read"
    /\ \E error \in ReadErrors :
          ChatStep(AttemptSendCatch([chat EXCEPT !.op = "readError", !.failure = error], error))

\* the delay before a retry of the chat request passes
ChatRetryDelayPasses ==
    /\ chat.pc = "wait"
    /\ LET c == [chat EXCEPT !.remaining = @ - 1, !.op = "delay"]
       IN  ChatStep(IF c.remaining = 0 THEN AttemptSendMessage(c) ELSE c)

NextRetry ==
    \/ ProcessRecording
    \/ TranscribeSettles
    \/ RetryDelayPasses
    \/ SendMessageToAI
    \/ ChatFetchSettles
    \/ ChatMessageShown
    \/ ChatStreamDone
    \/ ChatReadFails
    \/ ChatRetryDelayPasses

SpecRetry == Init /\ [][NextRetry]_vars

Settled == transcription'.op = "settle"

(***************************************************************************)
(* C30: a request that fails with a transient network failure (connection  *)
(* failure or timeout) before maxRetries retries is sent again after       *)
(* 1000 ms times the number of the retry; a clip is sent at most           *)
(* 1 + maxRetries times; and when processAudio ends the recorded chunks    *)
(* are cleared.                                                            *)
(***************************************************************************)
C30_TranscriptionRetries ==
    [][/\ (Settled /\ transcription.page = "push" /\ Transient(transcription'.failure)
              /\ transcription.retryCount < maxRetries) =>
             /\ transcription'.pc = "wait"
             /\ transcription'.remaining = RETRY_DELAY * (transcription.retryCount + 1)
       /\ transcription'.attempts <= 1 + maxRetries
       /\ transcription'.pc = "idle" => transcription'.audioChunks = 0]_vars

(***************************************************************************)
(* C31: a clip larger than 25 MB fails at once on the page: no request is  *)
(* sent to the transcription endpoint for it, the failure is reported and  *)
(* nothing is retried.                                                     *)
(***************************************************************************)
C31_LargeClipFailsLocally ==
    [][(transcription'.op = "start" /\ transcription'.size = "large") =>
          /\ transcription'.attempts = 0
          /\ transcription'.pc = "idle"
          /\ transcription'.status = "failed"]_vars

(***************************************************************************)
(* C32: an error that a remote endpoint answers with (a non-2xx response   *)
(* or success: false) is reported at once and never retried, whatever its  *)
(* status and body: the step that handles it ends the operation, so no     *)
(* further request is sent for it.                                         *)
(***************************************************************************)
C32_ServiceErrorNotRetried ==
    [][/\ (Settled /\ WellFormed(transcription'.failure)) =>
             (transcription'.pc = "idle" /\ transcription'.status = "failed")
       /\ (chat'.op = "settle" /\ WellFormed(chat'.failure)) =>
             (chat'.pc = "idle" /\ chat'.status = "failed")]_vars

(***************************************************************************)
(* C33: once handleStreamResponse was entered for a message, no further    *)
(* chat request is sent for that message: an error while the stream is     *)
(* read ends sendMessageToAI.                                              *)
(***************************************************************************)
C33_NoRetryMidStream ==
    [][(chat.streamed /\ chat'.op # "send") =>
          /\ chat'.requests = chat.requests
          /\ chat'.pc # "wait"]_vars

(***************************************************************************)
(* The read loop of handleStreamResponse (part_001 1082-1142, part_000     *)
(* 604-659, script.js 1086-1096).  The response is a sequence of symbols:  *)
(* the prefix `data: `, the two halves of the JSON text of an event, and   *)
(* the newline.  stream.events, .errored and .op are history: the events   *)
(* the endpoint sent, whether an error event was handled, the last step.   *)
(***************************************************************************)
StreamedEvents == {"workflow_started", "message", "workflow_finished", "error"}

Prefix == [kind |-> "data: ", event |-> "", half |-> 0]

Newline == [kind |-> "\n", event |-> "", half |-> 0]

Json(e, h) == [kind |-> "json", event |-> e, half |-> h]

\* the line the endpoint writes for an event
Line(e) == <<Prefix, Json(e, 1), Json(e, 2), Newline>>

RECURSIVE Bytes(_)
Bytes(events) ==
    IF events = <<>> THEN <<>> ELSE Line(Head(events)) \o Bytes(Tail(events))

\* chunk.split('\n')
RECURSIVE Split(_)
Split(chunk) ==
    IF \A i \in 1..Len(chunk) : chunk[i] # Newline
    THEN <<chunk>>
    ELSE LET i == CHOOSE j \in 1..Len(chunk) :
                     chunk[j] = Newline /\ \A k \in 1..(j - 1) : chunk[k] # Newline
         IN  <<SubSeq(chunk, 1, i - 1)>> \o Split(SubSeq(chunk, i + 1, Len(chunk)))

\* line.startsWith('data: ') and JSON.parse(line.slice(6)): the event of the
\* line, or "none" for a line that is skipped or does not parse
Parsed(line) ==
    IF Len(line) = 3 /\ line[1] = Prefix
          /\ \E e \in StreamedEvents : line = <<Prefix, Json(e, 1), Json(e, 2)>>
    THEN line[2].event
    ELSE "none"

\* for (const line of lines): the error branch leaves the for loop
RECURSIVE HandleLines(_, _)
HandleLines(lines, handled) ==
    IF lines = <<>> THEN handled
    ELSE LET e == Parsed(Head(lines))
         IN  IF e = "none" THEN HandleLines(Tail(lines), handled)
             ELSE IF e = "error" THEN Append(handled, e)
             ELSE HandleLines(Tail(lines), Append(handled, e))

\* one round of the while loop with the chunk that reader.read() returned
HandleChunk(s, chunk) ==
    LET handled == HandleLines(Split(chunk), s.handled)
    IN  [s EXCEPT !.handled = handled,
                  !.errored = @ \/ ("error" \in {handled[i] : i \in (Len(s.handled) + 1)..Len(handled)})]

StreamStep(s) ==
    /\ stream' = s
    /\ UNCHANGED <<state, vad, recorder, tts, timers, tasks, audioBuffer, conversation,
                   transcription, chat, detection, service, ghost>>

Responses == UNION {[1..n -> StreamedEvents] : n \in 1..MaxEvents}

\* the endpoint answers with a stream of events
ResponseStarts ==
    /\ ~stream.open
    /\ \E events \in Responses :
          StreamStep([NoStream EXCEPT !.open = TRUE, !.events = events,
                                      !.pending = Bytes(events), !.op = "open"])

\* reader.read() returns the next bytes, as many as the network delivered
ChunkRead ==
    /\ stream.open
    /\ \E n \in 1..Len(stream.pending) :
          StreamStep(HandleChunk([stream EXCEPT !.pending = SubSeq(@, n + 1, Len(@)),
                                                !.op = "chunk"],
                                 SubSeq(stream.pending, 1, n)))

\* reader.read() returns done
ResponseEnds ==
    /\ stream.open
    /\ stream.pending = <<>>
    /\ StreamStep([stream EXCEPT !.open = FALSE, !.op = "done"])

NextStream ==
    \/ ResponseStarts
    \/ ChunkRead
    \/ ResponseEnds

SpecStream == Init /\ [][NextStream]_vars

(***************************************************************************)
(* C34: the events handled do not depend on how the response is cut into   *)
(* chunks: when the whole response was read, the sequence of events        *)
(* handled is the one handled when the response arrives as one chunk.      *)
(***************************************************************************)
C34_ChunkingIndependent ==
    (stream.op = "done") =>
        stream.handled = HandleLines(Split(Bytes(stream.events)), <<>>)

(***************************************************************************)
(* C40: after an error event was handled no further event of that response *)
(* is handled.                                                             *)
(***************************************************************************)
C40_NothingAfterError ==
    [][(stream.errored /\ stream'.op # "open") => stream'.handled = stream.handled]_vars

(***************************************************************************)
(* The polling loops of startVoiceDetection (script.js 526-579, 668-775).  *)
(* Every loop is one pending setTimeout(checkVoiceLevel) whose handle is   *)
(* not kept; detection.loops holds, for each, consecutiveVoiceFrames of    *)
(* its closure.                                                            *)
(***************************************************************************)
\* the voice counter of a loop after checkVoiceLevel sampled the volume
Counted(n, volume) == IF IsVoice(volume) THEN Inc(n) ELSE 0

\* startVoiceDetection: new counters, and checkVoiceLevel runs at once and
\* schedules itself
NewLoop(d, volume) == [d EXCEPT !.loops = Append(@, Counted(0, volume))]

\* stopContinuousMonitoring: state.voiceDetectionTimer is never set, so no
\* timer is cleared
StopContinuousMonitoring(d) == [d EXCEPT !.continuousMonitoring = FALSE]

\* startContinuousMonitoring
StartContinuousMonitoring(d, volume) ==
    IF d.continuousMonitoring THEN d
    ELSE NewLoop([d EXCEPT !.continuousMonitoring = TRUE], volume)

\* the sequence without its i-th element
Without(seq, i) == SubSeq(seq, 1, i - 1) \o SubSeq(seq, i + 1, Len(seq))

\* the timer of the i-th loop fires: checkVoiceLevel returns when the
\* monitoring is off and schedules itself otherwise
LoopTimerFires(d, i, volume) ==
    IF ~d.continuousMonitoring
    THEN [d EXCEPT !.loops = Without(@, i)]
    ELSE [d EXCEPT !.loops[i] = Counted(@, volume)]

DetectionStep(d) ==
    /\ Len(d.loops) <= MaxLoops
    /\ detection' = d
    /\ UNCHANGED <<state, vad, recorder, tts, timers, tasks, audioBuffer, conversation,
                   transcription, chat, stream, service, ghost>>

\* window.toggleListening
ListeningToggled ==
    /\ Len(detection.loops) <= MaxLoops
    /\ \E volume \in Volumes :
          LET d == [detection EXCEPT !.op = "toggle"]
          IN  DetectionStep(IF d.continuousMonitoring
                            THEN StopContinuousMonitoring(d)
                            ELSE StartContinuousMonitoring(d, volume))

\* a pending checkVoiceLevel timer fires
LoopTick ==
    /\ detection.loops # <<>>
    /\ \E i \in 1..Len(detection.loops), volume \in Volumes :
          DetectionStep(LoopTimerFires([detection EXCEPT !.op = "tick"], i, volume))

NextDetection ==
    \/ ListeningToggled
    \/ LoopTick

SpecDetection == Init /\ [][NextDetection]_vars

(***************************************************************************)
(* C35: at most one polling loop is alive at any time, whatever the order  *)
(* of the toggles and the pending ticks.                                   *)
(***************************************************************************)
C35_OneLoop == Len(detection.loops) <= 1

(***************************************************************************)
(* C38: the recording timer belongs to one recording: a timer is pending   *)
(* only while isRecording is true, no second timer is pending beside the   *)
(* one state.recordingTimer holds, and a timeout ends only a recording     *)
(* that has lasted RECORDING_TIMEOUT.                                      *)
(***************************************************************************)
C38_TimerOfOneRecording ==
    [][/\ state'.recordingTimer # NoTimer => state'.isRecording
       /\ state'.leakedTimer = NoTimer
       /\ ("timeout" \in ghost'.ev /\ RecordingEnds) =>
             ghost.recAge >= RECORDING_TIMEOUT]_vars

(***************************************************************************)
(* C36: every recording starts with a latched voice start time: when a     *)
(* recording starts voiceStartTime is set, a tick that finds it set and    *)
(* leaves it set has not latched it anew, and when a recording ends it is  *)
(* cleared.                                                                *)
(***************************************************************************)
C36_VoiceStartLatched ==
    [][/\ RecordingStarts => state'.voiceStartTime # NoTime
       /\ (TickStep /\ state.voiceStartTime # NoTime /\ state'.voiceStartTime # NoTime) =>
             state'.voiceStartTime = Aged(state.voiceStartTime)
       /\ RecordingEnds => state'.voiceStartTime = NoTime]_vars

(***************************************************************************)
(* C37: the step that executeGlobalInterrupt defers clears  *)
(* isInterrupted, and it starts a recording exactly when the volume        *)
(* sampled last is above the threshold and no recording is active; with a  *)
(* last sample at or below the threshold it starts none.                   *)
(***************************************************************************)
C37_DeferredRestart ==
    [][("interruptTimer" \in ghost'.ev) =>
          /\ ~state'.isInterrupted
          /\ RecordingStarts <=>
                (state.lastVolume > VOICE_DETECTION_THRESHOLD /\ ~state.isRecording)
          /\ state.lastVolume <= VOICE_DETECTION_THRESHOLD =>
                state'.isRecording = state.isRecording]_vars

C37_Witness ==
    /\ "interruptTimer" \in ghost.ev
    /\ state.isRecording
    /\ state.recordingTimer = RECORDING_TIMEOUT
    /\ ~state.isInterrupted

(***************************************************************************)
(* TTSService.enqueue (tts_service.js 149-172).  enqueue pushes the text   *)
(* and starts _processQueue when nothing is spoken or processed; the loop  *)
(* shifts one item and awaits speak(), which sets isProcessing, calls      *)
(* this.stop() and awaits the synthesis and then the playback.             *)
(* service.phase is where the loop is suspended: "synth" in _callTTSAPI,   *)
(* "play" in _playAudio, "halted" in a _playAudio whose audio was paused   *)
(* by stop() and so never ends, "idle" when no loop is running.            *)
(***************************************************************************)
\* TTSService.stop
ServiceStop(s) ==
    [s EXCEPT !.currentAudio = FALSE, !.isSpeaking = FALSE, !.audioQueue = <<>>,
              !.phase = IF s.phase = "play" THEN "halted" ELSE @]

\* TTSService.speak, up to the await of _callTTSAPI
ServiceSpeak(s, text) ==
    IF ~s.enabled THEN [s EXCEPT !.phase = "idle", !.text = NoText]
    ELSE [ServiceStop([s EXCEPT !.isProcessing = TRUE])
             EXCEPT !.phase = "synth", !.text = text]

\* _processQueue, from the test of its while loop to the next await
ProcessQueue(s) ==
    IF s.audioQueue # <<>> /\ s.enabled
    THEN ServiceSpeak([s EXCEPT !.audioQueue = Tail(@)], Head(s.audioQueue))
    ELSE [s EXCEPT !.phase = "idle", !.text = NoText]

\* the finally block of speak, and the loop of _processQueue going on
ServiceSpeakFinally(s) == ProcessQueue([s EXCEPT !.isProcessing = FALSE])

\* TTSService.enqueue
Enqueue(s, text) ==
    IF ~s.enabled THEN s
    ELSE LET s1 == [s EXCEPT !.audioQueue = Append(@, text)]
         IN  IF ~s1.isSpeaking /\ ~s1.isProcessing THEN ProcessQueue(s1) ELSE s1

\* TTSService.setEnabled
ServiceSetEnabled(s, enabled) ==
    LET s1 == [s EXCEPT !.enabled = enabled]
    IN  IF ~enabled /\ s1.isSpeaking THEN ServiceStop(s1) ELSE s1

ServiceStep(s) ==
    /\ service' = s
    /\ UNCHANGED <<state, vad, recorder, tts, timers, tasks, audioBuffer, conversation,
                   transcription, chat, stream, detection, ghost>>

\* the caller enqueues its next text
TextEnqueued ==
    /\ service.next <= MaxTexts
    /\ ServiceStep(Enqueue([service EXCEPT !.next = @ + 1, !.op = "enqueue"],
                           service.next))

\* _callTTSAPI resolves and _playAudio starts the audio
SynthesisDone ==
    /\ service.phase = "synth"
    /\ ServiceStep([service EXCEPT !.phase = "play", !.currentAudio = TRUE,
                                   !.isSpeaking = TRUE, !.op = "synthesized"])

\* _callTTSAPI rejects
SynthesisFails ==
    /\ service.phase = "synth"
    /\ ServiceStep(ServiceSpeakFinally([service EXCEPT !.op = "failed"]))

\* audio.onended
PlaybackEnds ==
    /\ service.phase = "play"
    /\ ServiceStep(ServiceSpeakFinally(
          [service EXCEPT !.isSpeaking = FALSE, !.currentAudio = FALSE,
                          !.spoken = Append(@, service.text), !.op = "ended"]))

\* audio.onerror on the last attempt of _playAudioWithRetry
PlaybackFails ==
    /\ service.phase = "play"
    /\ ServiceStep(ServiceSpeakFinally(
          [service EXCEPT !.isSpeaking = FALSE, !.currentAudio = FALSE,
                          !.op = "failed"]))

\* the caller calls stop()
CallerStops ==
    /\ service.phase \in {"idle", "synth", "play", "halted"}
    /\ ServiceStep(ServiceStop([service EXCEPT !.op = "stop"]))

\* the caller calls setEnabled
EnabledSet ==
    /\ service.enabled \in BOOLEAN
    /\ \E enabled \in BOOLEAN :
          ServiceStep(ServiceSetEnabled([service EXCEPT !.op = "setEnabled"], enabled))

NextService ==
    \/ TextEnqueued
    \/ SynthesisDone
    \/ SynthesisFails
    \/ PlaybackEnds
    \/ PlaybackFails
    \/ CallerStops
    \/ EnabledSet

SpecService == Init /\ [][NextService]_vars

\* text t is waiting in the queue of s, or is the one being spoken
Held(t, s) ==
    \/ \E i \in DOMAIN s.audioQueue : s.audioQueue[i] = t
    \/ s.text = t

(***************************************************************************)
(* C39: a text that waits in the queue is not lost: unless the caller      *)
(* stops or disables the service, after every step it is still waiting or  *)
(* it is the text being spoken, and the texts are spoken in the order      *)
(* they were enqueued.                                                     *)
(***************************************************************************)
C39_QueuedTextKept ==
    [][service'.op \notin {"stop", "setEnabled"} =>
          /\ \A i \in DOMAIN service.audioQueue : Held(service.audioQueue[i], service')
          /\ \A i, j \in DOMAIN service'.spoken :
                i < j => service'.spoken[i] < service'.spoken[j]]_vars

====
